---- MODULE Spec2Model ----
(***************************************************************************)
(* The two storage backends of hyprstream (src/storage/duckdb.rs, the      *)
(* Embedded-Engine backend, and src/storage/adbc.rs, the Driver-Managed    *)
(* backend) as one state machine.  One backend instance is modelled: Init  *)
(* chooses which of the two it is.  Callers are concurrent tasks; the      *)
(* detached eviction tasks and the construction-time schema task of the    *)
(* Embedded backend are tasks of their own.  Every task's position (pc) is *)
(* part of the state, with one step per suspension point (waiting for a    *)
(* tokio Mutex) and one step per statement executed under the lock.        *)
(*                                                                         *)
(* Rust Strings and byte vectors are sequences of byte values, so that     *)
(* as_bytes, from_utf8, parse, to_le_bytes, from_le_bytes and the          *)
(* formatting of values into SQL text are computed, not assumed.           *)
(***************************************************************************)
EXTENDS Integers, Sequences, FiniteSets, Bags, TLC

(***************************************************************************)
(* Bounds of the model.                                                    *)
(***************************************************************************)
\* Total number of calls the callers make on the instance.
MaxOps == 3
\* Number of evictions the Cache Manager finds warranted.
MaxEvictions == 1

Procs == {"p1", "p2"}
Bg == "bg"
Callers == Procs \cup {Bg}
EvictNames == <<"e1", "e2", "e3", "e4", "e5", "e6", "e7", "e8">>
NoTask == "none"

\* The readings of the clock (seconds) a call may get.
Clock == {3}
\* Option<u64> / Option<i64>: None is {}, Some(x) is {x}.
None == {}
Some(x) == {x}
TtlConfigs == {None, Some(1)}

(***************************************************************************)
(* Text: a String is the sequence of its UTF-8 bytes (ASCII here).         *)
(***************************************************************************)
Quote == 39
Minus == 45
Plus == 43
Digit0 == 48
InvalidUtf8Byte == 255

RECURSIVE DecNat(_)
DecNat(n) == IF n < 10 THEN <<Digit0 + n>> ELSE Append(DecNat(n \div 10), Digit0 + (n % 10))

\* format!("{}", n) for an i64 (and for an f64 with an integral value, which
\* Display prints without a fraction).
FormatInt(n) == IF n < 0 THEN <<Minus>> \o DecNat(-n) ELSE DecNat(n)

IsDigit(b) == b >= Digit0 /\ b <= Digit0 + 9

RECURSIVE DigitsValue(_, _)
DigitsValue(s, acc) ==
    IF Len(s) = 0 THEN acc ELSE DigitsValue(Tail(s), acc * 10 + (Head(s) - Digit0))

\* str::parse::<i64>(): an optional sign followed by one or more digits.
\* Option<i64>.
ParseI64(s) ==
    LET body == IF Len(s) > 0 /\ s[1] \in {Minus, Plus} THEN Tail(s) ELSE s
        neg == Len(s) > 0 /\ s[1] = Minus
    IN  IF Len(body) = 0 \/ \E i \in 1..Len(body) : ~IsDigit(body[i])
        THEN None
        ELSE Some(IF neg THEN 0 - DigitsValue(body, 0) ELSE DigitsValue(body, 0))

\* std::str::from_utf8 on the handles of this model, whose bytes are ASCII or
\* the byte 0xFF (which no UTF-8 text contains).
FromUtf8(bytes) ==
    IF \E i \in 1..Len(bytes) : bytes[i] >= 128 THEN None ELSE Some(bytes)

(***************************************************************************)
(* MetricRecord and the inputs of the model.                               *)
(***************************************************************************)
MetricRecord(id, ts, sum, avg, cnt) ==
    [metric_id |-> id, timestamp |-> ts, value_running_window_sum |-> sum,
     value_running_window_avg |-> avg, value_running_window_count |-> cnt]

ColumnNames == {"metric_id", "timestamp", "value_running_window_sum",
                "value_running_window_avg", "value_running_window_count"}

\* "a" and "''" (two quote characters).
IdA == <<97>>
IdQQ == <<Quote, Quote>>

RecA1 == MetricRecord(IdA, 1, 10, 5, 2)
RecA2 == MetricRecord(IdA, 2, 30, 10, 3)
RecQ1 == MetricRecord(IdQQ, 1, 10, 5, 2)

\* The batches callers pass to insert_metrics.
Batches == {<<>>, <<RecA1, RecA2>>, <<RecA2, RecA2>>, <<RecQ1>>}
\* The timestamps callers pass to query_metrics.
QueryTimestamps == {1, 2, 3}

HasQuote(id) == \E i \in 1..Len(id) : id[i] = Quote

SeqToBag(s) ==
    LET dom == {s[i] : i \in 1..Len(s)}
    IN  [x \in dom |-> Cardinality({i \in 1..Len(s) : s[i] = x})]

(***************************************************************************)
(* The SQL the backends send, and the engine that executes it.  A statement*)
(* is a record: its kind, the column list written in its text, and the     *)
(* value texts or bound parameters.  The engine is the external            *)
(* collaborator; it is modelled by the rules of SQL the statements rely on:*)
(* a statement on a missing table fails, a VALUES list must not be empty,  *)
(* a string literal ends at its first unpaired quote, a PRIMARY KEY        *)
(* rejects a duplicate key.                                                *)
(***************************************************************************)
\* '...' as the engine reads it: Option<String>.  Two quotes inside the
\* literal stand for one quote character; the closing quote must be the last
\* character of the token.
RECURSIVE LexStringBody(_, _, _)
LexStringBody(s, i, acc) ==
    IF i > Len(s) THEN None
    ELSE IF s[i] # Quote THEN LexStringBody(s, i + 1, Append(acc, s[i]))
    ELSE IF i < Len(s) /\ s[i + 1] = Quote THEN LexStringBody(s, i + 2, Append(acc, Quote))
    ELSE IF i = Len(s) THEN Some(acc) ELSE None

SqlStringLiteral(tok) ==
    IF Len(tok) = 0 \/ tok[1] # Quote THEN None ELSE LexStringBody(tok, 2, <<>>)

\* The value the engine reads from the text written for a column.
SqlValue(col, tok) == IF col = "metric_id" THEN SqlStringLiteral(tok) ELSE ParseI64(tok)

IndexOf(cols, c) == CHOOSE j \in 1..Len(cols) : cols[j] = c

\* One "(v1, v2, ...)" group of a VALUES list as a table row: Option<row>.
SqlRow(cols, toks) ==
    IF \E j \in 1..Len(cols) : SqlValue(cols[j], toks[j]) = None
    THEN None
    ELSE Some([c \in ColumnNames |->
                 CHOOSE v \in SqlValue(c, toks[IndexOf(cols, c)]) : TRUE])

TheOne(opt) == CHOOSE v \in opt : TRUE

EngineOk(tbl, rows) == [ok |-> TRUE, table |-> tbl, rows |-> rows]
EngineErr(tbl) == [ok |-> FALSE, table |-> tbl, rows |-> <<>>]

\* INSERT INTO metrics (cols) VALUES (..), (..) with the values as text.
EngineInsertText(exists, tbl, stmt) ==
    LET n == Len(stmt.values)
        parsed == [i \in 1..n |-> SqlRow(stmt.columns, stmt.values[i])]
    IN  IF ~exists \/ n = 0 \/ \E i \in 1..n : parsed[i] = None
        THEN EngineErr(tbl)
        ELSE EngineOk(tbl \o [i \in 1..n |-> TheOne(parsed[i])], <<>>)

\* SELECT cols FROM metrics WHERE timestamp >= from: the rows as tuples in
\* the order of the select list.
EngineSelect(exists, tbl, cols, from) ==
    IF ~exists THEN EngineErr(tbl)
    ELSE LET hit == SelectSeq(tbl, LAMBDA r : r.timestamp >= from)
         IN  EngineOk(tbl, [i \in 1..Len(hit) |-> [j \in 1..Len(cols) |-> hit[i][cols[j]]]])

\* (a delete that also takes the rows at the cutoff)
EngineDelete_Inclusive(exists, tbl, cutoff) ==
    IF ~exists THEN EngineErr(tbl)
    ELSE EngineOk(SelectSeq(tbl, LAMBDA r : ~(r.timestamp <= cutoff)), <<>>)

\* DELETE FROM metrics WHERE timestamp < cutoff.
EngineDelete(exists, tbl, cutoff) ==
    IF ~exists THEN EngineErr(tbl)
    ELSE EngineOk(SelectSeq(tbl, LAMBDA r : ~(r.timestamp < cutoff)), <<>>)

\* The statements of the Embedded backend carry their values as text.
EngineSelectText(exists, tbl, stmt) ==
    IF ParseI64(stmt.from) = None THEN EngineErr(tbl)
    ELSE EngineSelect(exists, tbl, stmt.columns, TheOne(ParseI64(stmt.from)))

EngineDeleteText(exists, tbl, stmt) ==
    IF ParseI64(stmt.cutoff) = None THEN EngineErr(tbl)
    ELSE EngineDelete(exists, tbl, TheOne(ParseI64(stmt.cutoff)))

\* The construction paths of DuckDbBackend and the TTL each hands to
\* CacheManager::new.  The value of the option "ttl" in new_with_options:
\* missing, "0", "1", or a text that is no number ("x").
TtlOptions == {None, Some(FormatInt(0)), Some(FormatInt(1)), Some(<<120>>)}

\* str::parse::<u64>: as for i64, without a minus sign.
ParseU64(s) == IF s # <<>> /\ Head(s) = Minus THEN None ELSE ParseI64(s)

\* (an unreadable option falling back to a TTL of one second)
new_with_options_ttl_DefaultTtl(opt) ==
    IF opt = None \/ ParseU64(TheOne(opt)) = None THEN Some(1)
    ELSE IF TheOne(ParseU64(TheOne(opt))) = 0 THEN None
    ELSE ParseU64(TheOne(opt))

\* all_options.get("ttl").and_then(|s| s.parse().ok())
\*     .map(|ttl| if ttl == 0 { None } else { Some(ttl) }).unwrap_or(None)
new_with_options_ttl(opt) ==
    IF opt = None \/ ParseU64(TheOne(opt)) = None THEN None
    ELSE IF TheOne(ParseU64(TheOne(opt))) = 0 THEN None
    ELSE ParseU64(TheOne(opt))

\* new_in_memory: Self::new(":memory:", HashMap::new(), Some(0)).
new_in_memory_ttl == Some(0)

\* The TTL of an instance, by any of the paths: new with a TTL argument,
\* new_with_options, new_in_memory.
ConstructedTtls ==
    TtlConfigs \cup {new_with_options_ttl(o) : o \in TtlOptions} \cup {new_in_memory_ttl}

(***************************************************************************)
(* State.                                                                  *)
(***************************************************************************)
VARIABLES
    backend,              \* "duckdb" (DuckDbBackend) or "adbc" (AdbcBackend)
    ttl,                  \* CacheManager: the configured TTL, Option<u64>
    tableExists,          \* the engine: table metrics exists
    indexExists,          \* the engine: index metrics_timestamp_idx exists
    table,                \* the engine: the rows of metrics, in insertion order
    connHolder,           \* conn: Mutex<Connection>, the task holding it
    stmtHolder,           \* prepared_statements: Mutex<..>, the task holding it
    statement_counter,    \* AdbcBackend.statement_counter
    prepared_statements,  \* AdbcBackend.prepared_statements: Vec<(u64, String)>
    pc,                   \* position of each caller and of the schema task
    arg,                  \* the running call of each caller: arguments and locals
    res,                  \* the value the finished call returns
    evictions,            \* the detached eviction tasks, in spawn order
    ops,                  \* number of calls made so far
    inserts,              \* history: of the insert statements executed so far
    issued                \* history: the handles prepare_sql has returned

vars == <<backend, ttl, tableExists, indexExists, table, connHolder, stmtHolder,
          statement_counter, prepared_statements, pc, arg, res, evictions, ops,
          inserts, issued>>

\* The history of the executed inserts: their number, the records handed over (a bag),
\* whether each ran on an existing table, whether each returned Ok.
NoInserts == [calls |-> 0, passed |-> EmptyBag, allInit |-> TRUE, allOk |-> TRUE]
Inserted(h, metrics, ok, exists) ==
    [calls |-> h.calls + 1, passed |-> h.passed (+) SeqToBag(metrics),
     allInit |-> h.allInit /\ exists, allOk |-> h.allOk /\ ok]

NoArg == [op |-> "none", metrics |-> <<>>, from |-> 0, handle |-> <<>>, num |-> 0,
          sql |-> <<>>, stage |-> "", checked |-> FALSE, cutoff |-> None, task |-> 0]
NoRes == [status |-> "none", rows |-> <<>>, handle |-> <<>>]
Ok(rows) == [status |-> "Ok", rows |-> rows, handle |-> <<>>]
OkHandle(h) == [status |-> "Ok", rows |-> <<>>, handle |-> h]
Err(kind) == [status |-> kind, rows |-> <<>>, handle |-> <<>>]

\* The background task of DuckDbBackend::new starts in create_tables, about
\* to lock the connection for CREATE TABLE.
SchemaArg == [NoArg EXCEPT !.op = "create_tables", !.stage = "table"]

Init ==
    /\ backend \in {"duckdb", "adbc"}
    /\ ttl \in (IF backend = "duckdb" THEN ConstructedTtls ELSE {None})
    \* The database an AdbcBackend connects to may hold the (empty) table of
    \* an earlier run; DuckDbBackend::new opens a fresh database.
    /\ tableExists \in (IF backend = "adbc" THEN BOOLEAN ELSE {FALSE})
    /\ indexExists = FALSE
    /\ table = <<>>
    /\ connHolder = NoTask
    /\ stmtHolder = NoTask
    /\ statement_counter = 0
    /\ prepared_statements = <<>>
    /\ pc = [t \in Callers |->
               IF t = Bg THEN (IF backend = "duckdb" THEN "conn_wait" ELSE "none")
               ELSE "idle"]
    /\ arg = [t \in Callers |-> IF t = Bg /\ backend = "duckdb" THEN SchemaArg ELSE NoArg]
    /\ res = [t \in Callers |-> NoRes]
    /\ evictions = <<>>
    /\ ops = 0
    /\ inserts = NoInserts
    /\ issued = <<>>

(***************************************************************************)
(* The Cache Manager (crate::storage::cache; its code is not among the     *)
(* sources, its contract is section 4.2 of the specification).             *)
(***************************************************************************)
\* should_evict(): the possible results, Option<cutoff>.  With a TTL it may
\* or may not find an eviction warranted; the cutoff is now - TTL.  The model
\* lets it find one warranted MaxEvictions times.
should_evict(t, clock, spawned) ==
    IF t = None \/ t = Some(0) \/ spawned >= MaxEvictions
    THEN {None}
    ELSE {None, Some(clock - TheOne(t))}

\* eviction_query(cutoff): DELETE FROM metrics WHERE timestamp < cutoff.
eviction_query(cutoff) == [kind |-> "delete", cutoff |-> FormatInt(cutoff)]

(***************************************************************************)
(* DuckDbBackend (src/storage/duckdb.rs).                                  *)
(***************************************************************************)
\* execute_eviction: spawns the detached task and returns Ok at once.
execute_eviction(tasks, query) == Append(tasks, [query |-> query, pc |-> "conn_wait"])

\* "if let Some(cutoff) = should_evict() { execute_eviction(eviction_query(cutoff)) }"
CheckEviction(tasks, cut) ==
    IF cut = None THEN tasks ELSE execute_eviction(tasks, eviction_query(TheOne(cut)))

\* The place among the detached tasks of the one a call spawns; 0 when it
\* spawns none.
SpawnedTask(tasks, cut) == IF cut = None THEN 0 ELSE Len(tasks) + 1

DuckInsertColumns == <<"timestamp", "metric_id", "value_running_window_sum",
                       "value_running_window_avg", "value_running_window_count">>

\* format!("({}, '{}', {}, {}, {})", ...) for one record.
DuckFormatMetric(m) ==
    <<FormatInt(m.timestamp), <<Quote>> \o m.metric_id \o <<Quote>>,
      FormatInt(m.value_running_window_sum), FormatInt(m.value_running_window_avg),
      FormatInt(m.value_running_window_count)>>

\* The INSERT text insert_metrics builds.
DuckInsertQuery(metrics) ==
    [kind |-> "insert", columns |-> DuckInsertColumns,
     values |-> [i \in 1..Len(metrics) |-> DuckFormatMetric(metrics[i])]]

\* (a filter that leaves out the records at from_timestamp itself)
DuckSelectQuery_Exclusive(from_timestamp) ==
    [kind |-> "select", columns |-> DuckInsertColumns, from |-> FormatInt(from_timestamp + 1)]

\* The SELECT text query_metrics builds.
DuckSelectQuery(from_timestamp) ==
    [kind |-> "select", columns |-> DuckInsertColumns, from |-> FormatInt(from_timestamp)]

\* (a decoding that reads sum and avg from each other's position)
DuckRowToMetric_SwappedValues(row) == MetricRecord(row[2], row[1], row[4], row[3], row[5])

\* row.get(0) .. row.get(4) into a MetricRecord.
DuckRowToMetric(row) == MetricRecord(row[2], row[1], row[3], row[4], row[5])

\* A caller makes its next call once its previous call has returned.
CanCall(p) == pc[p] \in {"idle", "done"} /\ ops < MaxOps

\* (a call that locks only once every detached eviction has finished)
conn_lock_AfterEvictions(t) ==
    /\ pc[t] = "conn_wait"
    /\ connHolder = NoTask
    /\ \A i \in 1..Len(evictions) : evictions[i].pc \in {"ok", "failed"}
    /\ connHolder' = t
    /\ pc' = [pc EXCEPT ![t] = "conn_held"]
    /\ UNCHANGED <<backend, ttl, tableExists, indexExists, table, stmtHolder,
                   statement_counter, prepared_statements, arg, res, evictions, ops,
                   inserts, issued>>

\* Mutex::lock().await on conn, by a caller or by the schema task: the task
\* is suspended until the lock is free.
conn_lock(t) ==
    /\ pc[t] = "conn_wait"
    /\ connHolder = NoTask
    /\ connHolder' = t
    /\ pc' = [pc EXCEPT ![t] = "conn_held"]
    /\ UNCHANGED <<backend, ttl, tableExists, indexExists, table, stmtHolder,
                   statement_counter, prepared_statements, arg, res, evictions, ops,
                   inserts, issued>>

\* init(): calls create_tables.
DuckDb_init(p) ==
    /\ backend = "duckdb" /\ CanCall(p)
    /\ arg' = [arg EXCEPT ![p] = [NoArg EXCEPT !.op = "init", !.stage = "table"]]
    /\ pc' = [pc EXCEPT ![p] = "conn_wait"]
    /\ ops' = ops + 1
    /\ UNCHANGED <<backend, ttl, tableExists, indexExists, table, connHolder,
                   stmtHolder, statement_counter, prepared_statements, res, evictions,
                   inserts, issued>>

\* create_tables, one statement per step: execute(create_table)?, then
\* execute(create_index).  The index statement needs the table.
DuckDb_create_tables(t) ==
    /\ backend = "duckdb" /\ pc[t] = "conn_held"
    /\ arg[t].op \in {"init", "create_tables"}
    /\ connHolder' = NoTask
    /\ IF arg[t].stage = "table"
       THEN /\ tableExists' = TRUE
            /\ indexExists' = indexExists
            /\ arg' = [arg EXCEPT ![t].stage = "index"]
            /\ pc' = [pc EXCEPT ![t] = "conn_wait"]
            /\ res' = res
       ELSE /\ tableExists' = tableExists
            /\ indexExists' = (indexExists \/ tableExists)
            /\ arg' = arg
            /\ pc' = [pc EXCEPT ![t] = "done"]
            /\ res' = [res EXCEPT ![t] = IF tableExists THEN Ok(<<>>) ELSE Err("Internal")]
    /\ UNCHANGED <<backend, ttl, table, stmtHolder, statement_counter,
                   prepared_statements, evictions, ops, inserts, issued>>

\* insert_metrics, up to the lock: the eviction check and the detached task.
DuckDb_insert_metrics(p, metrics) ==
    /\ backend = "duckdb" /\ CanCall(p)
    /\ \E now \in Clock : \E cut \in should_evict(ttl, now, Len(evictions)) :
          /\ evictions' = CheckEviction(evictions, cut)
          /\ arg' = [arg EXCEPT ![p] = [NoArg EXCEPT !.op = "insert_metrics",
                                         !.metrics = metrics, !.checked = TRUE,
                                         !.cutoff = cut,
                                         !.task = SpawnedTask(evictions, cut)]]
    /\ pc' = [pc EXCEPT ![p] = "conn_wait"]
    /\ ops' = ops + 1
    /\ UNCHANGED <<backend, ttl, tableExists, indexExists, table, connHolder,
                   stmtHolder, statement_counter, prepared_statements, res, inserts,
                   issued>>

\* insert_metrics under the lock: execute(&query).
DuckDb_execute(p) ==
    /\ backend = "duckdb" /\ pc[p] = "conn_held" /\ arg[p].op = "insert_metrics"
    /\ LET r == EngineInsertText(tableExists, table, DuckInsertQuery(arg[p].metrics))
       IN  /\ table' = r.table
           /\ res' = [res EXCEPT ![p] = IF r.ok THEN Ok(<<>>) ELSE Err("Internal")]
           /\ inserts' = Inserted(inserts, arg[p].metrics, r.ok, tableExists)
    /\ connHolder' = NoTask
    /\ pc' = [pc EXCEPT ![p] = "done"]
    /\ UNCHANGED <<backend, ttl, tableExists, indexExists, stmtHolder,
                   statement_counter, prepared_statements, arg, evictions, ops, issued>>

\* query_metrics, up to the lock.
DuckDb_query_metrics(p, from_timestamp) ==
    /\ backend = "duckdb" /\ CanCall(p)
    /\ \E now \in Clock : \E cut \in should_evict(ttl, now, Len(evictions)) :
          /\ evictions' = CheckEviction(evictions, cut)
          /\ arg' = [arg EXCEPT ![p] = [NoArg EXCEPT !.op = "query_metrics",
                                         !.from = from_timestamp, !.checked = TRUE,
                                         !.cutoff = cut,
                                         !.task = SpawnedTask(evictions, cut)]]
    /\ pc' = [pc EXCEPT ![p] = "conn_wait"]
    /\ ops' = ops + 1
    /\ UNCHANGED <<backend, ttl, tableExists, indexExists, table, connHolder,
                   stmtHolder, statement_counter, prepared_statements, res, inserts,
                   issued>>

\* The rows of a SELECT decoded into MetricRecords.
DuckDecodeRows(rows) == [i \in 1..Len(rows) |-> DuckRowToMetric(rows[i])]

\* What query_metrics returns from the store as it is: prepare, query,
\* decode; Ok(metrics) also when there is no row.
DuckQueryMetricsResult(exists, tbl, from_timestamp) ==
    LET r == EngineSelectText(exists, tbl, DuckSelectQuery(from_timestamp))
    IN  IF r.ok THEN Ok(DuckDecodeRows(r.rows)) ELSE Err("Internal")

\* query_metrics under the lock (also reached from query_sql).
DuckDb_query_rows(p) ==
    /\ backend = "duckdb" /\ pc[p] = "conn_held"
    /\ arg[p].op \in {"query_metrics", "query_sql"}
    /\ res' = [res EXCEPT ![p] = DuckQueryMetricsResult(tableExists, table, arg[p].from)]
    /\ connHolder' = NoTask
    /\ pc' = [pc EXCEPT ![p] = "done"]
    /\ UNCHANGED <<backend, ttl, tableExists, indexExists, table, stmtHolder,
                   statement_counter, prepared_statements, arg, evictions, ops,
                   inserts, issued>>

\* prepare_sql: the handle is the bytes of the query text.
DuckDb_prepare_sql(p, query) ==
    /\ backend = "duckdb" /\ CanCall(p)
    /\ arg' = [arg EXCEPT ![p] = [NoArg EXCEPT !.op = "prepare_sql", !.sql = query]]
    /\ res' = [res EXCEPT ![p] = OkHandle(query)]
    /\ issued' = Append(issued, query)
    /\ pc' = [pc EXCEPT ![p] = "done"]
    /\ ops' = ops + 1
    /\ UNCHANGED <<backend, ttl, tableExists, indexExists, table, connHolder,
                   stmtHolder, statement_counter, prepared_statements, evictions,
                   inserts>>

\* sql.parse().unwrap_or(0)
ParseOrZero(text) == IF ParseI64(text) = None THEN 0 ELSE TheOne(ParseI64(text))

\* query_sql: from_utf8 (an Internal error when it fails), then
\* query_metrics(sql.parse().unwrap_or(0)) up to its lock.
DuckDb_query_sql(p, statement_handle) ==
    /\ backend = "duckdb" /\ CanCall(p)
    /\ ops' = ops + 1
    /\ IF FromUtf8(statement_handle) = None
       THEN /\ arg' = [arg EXCEPT ![p] = [NoArg EXCEPT !.op = "query_sql",
                                           !.handle = statement_handle]]
            /\ res' = [res EXCEPT ![p] = Err("Internal")]
            /\ pc' = [pc EXCEPT ![p] = "done"]
            /\ evictions' = evictions
       ELSE /\ \E now \in Clock : \E cut \in should_evict(ttl, now, Len(evictions)) :
                  /\ evictions' = CheckEviction(evictions, cut)
                  /\ arg' = [arg EXCEPT ![p] =
                               [NoArg EXCEPT !.op = "query_sql",
                                             !.handle = statement_handle,
                                             !.from = ParseOrZero(TheOne(FromUtf8(statement_handle))),
                                             !.checked = TRUE, !.cutoff = cut,
                                         !.task = SpawnedTask(evictions, cut)]]
            /\ res' = res
            /\ pc' = [pc EXCEPT ![p] = "conn_wait"]
    /\ UNCHANGED <<backend, ttl, tableExists, indexExists, table, connHolder,
                   stmtHolder, statement_counter, prepared_statements, inserts, issued>>

\* (an eviction task that does not wait for the lock)
eviction_may_lock_Unlocked(holder) == TRUE

\* The detached eviction task: conn.lock().await ...
eviction_may_lock(holder) == holder = NoTask

execute_eviction_lock(i) ==
    /\ i \in 1..Len(evictions)
    /\ evictions[i].pc = "conn_wait"
    /\ eviction_may_lock(connHolder)
    /\ connHolder' = EvictNames[i]
    /\ evictions' = [evictions EXCEPT ![i].pc = "conn_held"]
    /\ UNCHANGED <<backend, ttl, tableExists, indexExists, table, stmtHolder,
                   statement_counter, prepared_statements, pc, arg, res, ops, inserts,
                   issued>>

\* (an eviction task that does not run its statement)
eviction_execute_batch_Skipped(exists, tbl, query) == EngineOk(tbl, <<>>)

\* ... then conn_guard.execute_batch(&query) ...
eviction_execute_batch(exists, tbl, query) == EngineDeleteText(exists, tbl, query)

\* (an error of the delete handed to the calls that have not returned yet)
eviction_error_Propagated(results, positions, ok) ==
    [t \in DOMAIN results |->
        IF ~ok /\ positions[t] \in {"conn_wait", "conn_held"}
        THEN Err("Internal") ELSE results[t]]

\* "if let Err(e) = .. { eprintln!(..) }": the error of the delete is printed
\* inside the detached task; the results of the calls are what they were.
eviction_error(results, positions, ok) == results

\* ... whose error is only printed.
execute_eviction_run(i) ==
    /\ i \in 1..Len(evictions)
    /\ evictions[i].pc = "conn_held"
    /\ LET r == eviction_execute_batch(tableExists, table, evictions[i].query)
       IN  /\ table' = r.table
           /\ evictions' = [evictions EXCEPT ![i].pc = IF r.ok THEN "ok" ELSE "failed"]
           /\ res' = eviction_error(res, pc, r.ok)
    /\ connHolder' = NoTask
    /\ UNCHANGED <<backend, ttl, tableExists, indexExists, stmtHolder,
                   statement_counter, prepared_statements, pc, arg, ops, inserts,
                   issued>>

(***************************************************************************)
(* AdbcBackend (src/storage/adbc.rs).                                      *)
(***************************************************************************)
AdbcInsertColumns == <<"metric_id", "timestamp", "value_running_window_sum",
                       "value_running_window_avg", "value_running_window_count">>

\* metrics_to_record_batch: five arrays, in the order of the schema.
metrics_to_record_batch(metrics) ==
    <<[i \in 1..Len(metrics) |-> metrics[i].metric_id],
      [i \in 1..Len(metrics) |-> metrics[i].timestamp],
      [i \in 1..Len(metrics) |-> metrics[i].value_running_window_sum],
      [i \in 1..Len(metrics) |-> metrics[i].value_running_window_avg],
      [i \in 1..Len(metrics) |-> metrics[i].value_running_window_count]>>

\* record_batch_to_metrics (called by query_metrics and query_sql; its body
\* is not among the sources): the columns of a batch by position.
record_batch_to_metrics(batch) ==
    [i \in 1..Len(batch[1]) |->
        MetricRecord(batch[1][i], batch[2][i], batch[3][i], batch[4][i], batch[5][i])]

\* The result rows of a SELECT as the reader's one RecordBatch.
RowsToBatch(rows) == [j \in 1..5 |-> [i \in 1..Len(rows) |-> rows[i][j]]]

\* PRIMARY KEY (metric_id, timestamp)
PrimaryKey(r) == <<r.metric_id, r.timestamp>>

\* (a table declared without its key: no row ever conflicts)
FirstConflict_NoKey(tbl, rows) == 0

\* The first row of rows whose key is already in tbl or earlier in rows; 0
\* when there is none.
FirstConflict(tbl, rows) ==
    LET bad == {k \in 1..Len(rows) :
                   \/ \E j \in 1..Len(tbl) : PrimaryKey(tbl[j]) = PrimaryKey(rows[k])
                   \/ \E j \in 1..(k - 1) : PrimaryKey(rows[j]) = PrimaryKey(rows[k])}
    IN  IF bad = {} THEN 0 ELSE CHOOSE k \in bad : \A j \in bad : k <= j

\* INSERT INTO metrics (cols) VALUES (?, ?, ?, ?, ?) with a bound batch: the
\* possible outcomes.  On a key conflict the statement fails; whether the rows
\* before the conflicting one stay depends on the engine.
EngineInsertBound(exists, tbl, cols, batch) ==
    LET n == Len(batch[1])
        rows == [i \in 1..n |-> [c \in ColumnNames |-> batch[IndexOf(cols, c)][i]]]
        k == FirstConflict(tbl, rows)
    IN  IF ~exists THEN {EngineErr(tbl)}
        ELSE IF k = 0 THEN {EngineOk(tbl \o rows, <<>>)}
        ELSE {EngineErr(tbl), EngineErr(tbl \o SubSeq(rows, 1, k - 1))}

\* A query text as a caller writes it: "S" stands for the text
\* "SELECT metric_id, timestamp, ... FROM metrics WHERE timestamp >= ",
\* followed by the timestamp in decimal.
SelectKeyword == <<83>>
SelectSql(t) == SelectKeyword \o FormatInt(t)

\* The engine executing a query text.
EngineExecuteText(exists, tbl, cols, sql) ==
    IF Len(sql) < 2 \/ SubSeq(sql, 1, 1) # SelectKeyword \/ ParseI64(Tail(sql)) = None
    THEN EngineErr(tbl)
    ELSE EngineSelect(exists, tbl, cols, TheOne(ParseI64(Tail(sql))))

\* The texts callers pass to prepare_sql.
QueryTexts == {FormatInt(2), SelectSql(2), SelectSql(3)}

\* u64::to_le_bytes / u64::from_le_bytes.
RECURSIVE LeBytes(_, _)
LeBytes(n, k) == IF k = 0 THEN <<>> ELSE <<n % 256>> \o LeBytes(n \div 256, k - 1)
to_le_bytes(n) == LeBytes(n, 8)

\* (a decoding that reads the first byte only)
from_le_bytes_LowByte(b) == IF Len(b) = 0 THEN 0 ELSE Head(b)

RECURSIVE from_le_bytes(_)
from_le_bytes(b) == IF Len(b) = 0 THEN 0 ELSE Head(b) + 256 * from_le_bytes(Tail(b))

\* The handles callers pass to query_sql.
AdbcHandles == {<<>>, to_le_bytes(0), to_le_bytes(1), to_le_bytes(256),
                <<0, 0, 0, 0, 0, 0, 0, 0, 0>>}
DuckHandles == QueryTexts \cup {<<InvalidUtf8Byte>>}

\* init(): create_tables, up to the lock.
Adbc_init(p) ==
    /\ backend = "adbc" /\ CanCall(p)
    /\ arg' = [arg EXCEPT ![p] = [NoArg EXCEPT !.op = "init"]]
    /\ pc' = [pc EXCEPT ![p] = "conn_wait"]
    /\ ops' = ops + 1
    /\ UNCHANGED <<backend, ttl, tableExists, indexExists, table, connHolder,
                   stmtHolder, statement_counter, prepared_statements, res, evictions,
                   inserts, issued>>

\* (a CREATE TABLE that replaces the table it finds)
Adbc_create_tables_Replace(p) ==
    /\ backend = "adbc" /\ pc[p] = "conn_held" /\ arg[p].op = "init"
    /\ tableExists' = TRUE
    /\ table' = <<>>
    /\ res' = [res EXCEPT ![p] = Ok(<<>>)]
    /\ connHolder' = NoTask
    /\ pc' = [pc EXCEPT ![p] = "done"]
    /\ UNCHANGED <<backend, ttl, indexExists, stmtHolder, statement_counter,
                   prepared_statements, arg, evictions, ops, inserts, issued>>

\* create_tables under the lock: CREATE TABLE IF NOT EXISTS.
Adbc_create_tables(p) ==
    /\ backend = "adbc" /\ pc[p] = "conn_held" /\ arg[p].op = "init"
    /\ tableExists' = TRUE
    /\ res' = [res EXCEPT ![p] = Ok(<<>>)]
    /\ connHolder' = NoTask
    /\ pc' = [pc EXCEPT ![p] = "done"]
    /\ UNCHANGED <<backend, ttl, indexExists, table, stmtHolder, statement_counter,
                   prepared_statements, arg, evictions, ops, inserts, issued>>

\* insert_metrics, up to the lock: no eviction check, the batch conversion.
Adbc_insert_metrics(p, metrics) ==
    /\ backend = "adbc" /\ CanCall(p)
    /\ arg' = [arg EXCEPT ![p] = [NoArg EXCEPT !.op = "insert_metrics", !.metrics = metrics]]
    /\ pc' = [pc EXCEPT ![p] = "conn_wait"]
    /\ ops' = ops + 1
    /\ UNCHANGED <<backend, ttl, tableExists, indexExists, table, connHolder,
                   stmtHolder, statement_counter, prepared_statements, res, evictions,
                   inserts, issued>>

\* insert_metrics under the lock: bind(batch), execute_update.
Adbc_insert_execute(p) ==
    /\ backend = "adbc" /\ pc[p] = "conn_held" /\ arg[p].op = "insert_metrics"
    /\ \E r \in EngineInsertBound(tableExists, table, AdbcInsertColumns,
                                  metrics_to_record_batch(arg[p].metrics)) :
          /\ table' = r.table
          /\ res' = [res EXCEPT ![p] = IF r.ok THEN Ok(<<>>) ELSE Err("Internal")]
          /\ inserts' = Inserted(inserts, arg[p].metrics, r.ok, tableExists)
    /\ connHolder' = NoTask
    /\ pc' = [pc EXCEPT ![p] = "done"]
    /\ UNCHANGED <<backend, ttl, tableExists, indexExists, stmtHolder,
                   statement_counter, prepared_statements, arg, evictions, ops, issued>>

\* query_metrics, up to the lock.
Adbc_query_metrics(p, from_timestamp) ==
    /\ backend = "adbc" /\ CanCall(p)
    /\ arg' = [arg EXCEPT ![p] = [NoArg EXCEPT !.op = "query_metrics", !.from = from_timestamp]]
    /\ pc' = [pc EXCEPT ![p] = "conn_wait"]
    /\ ops' = ops + 1
    /\ UNCHANGED <<backend, ttl, tableExists, indexExists, table, connHolder,
                   stmtHolder, statement_counter, prepared_statements, res, evictions,
                   inserts, issued>>

\* (a query that returns an empty result as Ok)
AdbcQueryResult_AlwaysOk(metrics) == Ok(metrics)

\* "if metrics.is_empty() { return Err(Status::not_found(..)) } Ok(metrics)"
AdbcQueryResult(metrics) == IF Len(metrics) = 0 THEN Err("NotFound") ELSE Ok(metrics)

\* What query_metrics returns from the store as it is: bind the timestamp,
\* execute, decode.
AdbcQueryMetricsResult(exists, tbl, from_timestamp) ==
    LET r == EngineSelect(exists, tbl, AdbcInsertColumns, from_timestamp)
    IN  IF r.ok THEN AdbcQueryResult(record_batch_to_metrics(RowsToBatch(r.rows)))
        ELSE Err("Internal")

\* query_metrics under the lock.
Adbc_query_execute(p) ==
    /\ backend = "adbc" /\ pc[p] = "conn_held" /\ arg[p].op = "query_metrics"
    /\ res' = [res EXCEPT ![p] = AdbcQueryMetricsResult(tableExists, table, arg[p].from)]
    /\ connHolder' = NoTask
    /\ pc' = [pc EXCEPT ![p] = "done"]
    /\ UNCHANGED <<backend, ttl, tableExists, indexExists, table, stmtHolder,
                   statement_counter, prepared_statements, arg, evictions, ops,
                   inserts, issued>>

\* (a counter that is read but not advanced)
fetch_add_NoIncrement(counter) == counter

\* statement_counter.fetch_add(1, SeqCst): the new value of the counter.
fetch_add(counter) == counter + 1

\* prepare_sql, up to the lock of the statement cache: the handle is drawn.
Adbc_prepare_sql(p, query) ==
    /\ backend = "adbc" /\ CanCall(p)
    /\ statement_counter' = fetch_add(statement_counter)
    /\ arg' = [arg EXCEPT ![p] = [NoArg EXCEPT !.op = "prepare_sql", !.sql = query,
                                               !.num = statement_counter]]
    /\ pc' = [pc EXCEPT ![p] = "stmt_wait"]
    /\ ops' = ops + 1
    /\ UNCHANGED <<backend, ttl, tableExists, indexExists, table, connHolder,
                   stmtHolder, prepared_statements, res, evictions, inserts, issued>>

\* (a statement cache that keeps the latest statement only)
Adbc_prepare_push_KeepLatest(p) ==
    /\ backend = "adbc" /\ pc[p] = "stmt_wait" /\ arg[p].op = "prepare_sql"
    /\ stmtHolder = NoTask
    /\ prepared_statements' = <<(<<arg[p].num, arg[p].sql>>)>>
    /\ res' = [res EXCEPT ![p] = OkHandle(to_le_bytes(arg[p].num))]
    /\ issued' = Append(issued, to_le_bytes(arg[p].num))
    /\ pc' = [pc EXCEPT ![p] = "done"]
    /\ UNCHANGED <<backend, ttl, tableExists, indexExists, table, connHolder,
                   stmtHolder, statement_counter, arg, evictions, ops, inserts>>

\* prepare_sql under the lock of the statement cache: push, return the bytes.
Adbc_prepare_push(p) ==
    /\ backend = "adbc" /\ pc[p] = "stmt_wait" /\ arg[p].op = "prepare_sql"
    /\ stmtHolder = NoTask
    /\ prepared_statements' = Append(prepared_statements, <<arg[p].num, arg[p].sql>>)
    /\ res' = [res EXCEPT ![p] = OkHandle(to_le_bytes(arg[p].num))]
    /\ issued' = Append(issued, to_le_bytes(arg[p].num))
    /\ pc' = [pc EXCEPT ![p] = "done"]
    /\ UNCHANGED <<backend, ttl, tableExists, indexExists, table, connHolder,
                   stmtHolder, statement_counter, arg, evictions, ops, inserts>>

\* (a conversion that accepts a slice of any length)
TryIntoArray8_AnyLength(bytes) == Some(bytes)

\* statement_handle.try_into(): a slice converts to [u8; 8] iff its length is 8.
TryIntoArray8(bytes) == IF Len(bytes) = 8 THEN Some(bytes) ELSE None

\* query_sql, up to the lock of the statement cache: the handle is decoded.
Adbc_query_sql(p, statement_handle) ==
    /\ backend = "adbc" /\ CanCall(p)
    /\ ops' = ops + 1
    /\ IF TryIntoArray8(statement_handle) = None
       THEN /\ arg' = [arg EXCEPT ![p] = [NoArg EXCEPT !.op = "query_sql",
                                           !.handle = statement_handle]]
            /\ res' = [res EXCEPT ![p] = Err("InvalidArgument")]
            /\ pc' = [pc EXCEPT ![p] = "done"]
       ELSE /\ arg' = [arg EXCEPT ![p] =
                         [NoArg EXCEPT !.op = "query_sql", !.handle = statement_handle,
                                       !.num = from_le_bytes(TheOne(TryIntoArray8(statement_handle)))]]
            /\ res' = res
            /\ pc' = [pc EXCEPT ![p] = "stmt_wait"]
    /\ UNCHANGED <<backend, ttl, tableExists, indexExists, table, connHolder,
                   stmtHolder, statement_counter, prepared_statements, evictions,
                   inserts, issued>>

\* statements.iter().find(|(h, _)| *h == handle): Option<index>.
FindStatement(statements, handle) ==
    LET hits == {i \in 1..Len(statements) : statements[i][1] = handle}
    IN  IF hits = {} THEN None ELSE Some(CHOOSE i \in hits : \A j \in hits : i <= j)

\* query_sql under the lock of the statement cache: the lookup.  An unknown
\* handle returns InvalidArgument (the guard is dropped); otherwise the guard
\* is kept while the call goes on to lock the connection.
Adbc_query_sql_find(p) ==
    /\ backend = "adbc" /\ pc[p] = "stmt_wait" /\ arg[p].op = "query_sql"
    /\ stmtHolder = NoTask
    /\ LET found == FindStatement(prepared_statements, arg[p].num)
       IN  IF found = None
           THEN /\ res' = [res EXCEPT ![p] = Err("InvalidArgument")]
                /\ pc' = [pc EXCEPT ![p] = "done"]
                /\ UNCHANGED <<arg, stmtHolder>>
           ELSE /\ arg' = [arg EXCEPT ![p].sql = prepared_statements[TheOne(found)][2]]
                /\ stmtHolder' = p
                /\ pc' = [pc EXCEPT ![p] = "conn_wait"]
                /\ res' = res
    /\ UNCHANGED <<backend, ttl, tableExists, indexExists, table, connHolder,
                   statement_counter, prepared_statements, evictions, ops, inserts,
                   issued>>

\* (a query_sql that returns with the statement cache still locked)
Adbc_query_sql_execute_KeepsGuard(p) ==
    /\ backend = "adbc" /\ pc[p] = "conn_held" /\ arg[p].op = "query_sql"
    /\ LET r == EngineExecuteText(tableExists, table, AdbcInsertColumns, arg[p].sql)
       IN  res' = [res EXCEPT ![p] =
                     IF r.ok THEN Ok(record_batch_to_metrics(RowsToBatch(r.rows)))
                     ELSE Err("Internal")]
    /\ connHolder' = NoTask
    /\ pc' = [pc EXCEPT ![p] = "done"]
    /\ UNCHANGED <<backend, ttl, tableExists, indexExists, table, stmtHolder,
                   statement_counter, prepared_statements, arg, evictions, ops,
                   inserts, issued>>

\* query_sql under both locks: execute the text, decode; Ok(metrics) also
\* when there is no row.
Adbc_query_sql_execute(p) ==
    /\ backend = "adbc" /\ pc[p] = "conn_held" /\ arg[p].op = "query_sql"
    /\ LET r == EngineExecuteText(tableExists, table, AdbcInsertColumns, arg[p].sql)
       IN  res' = [res EXCEPT ![p] =
                     IF r.ok THEN Ok(record_batch_to_metrics(RowsToBatch(r.rows)))
                     ELSE Err("Internal")]
    /\ connHolder' = NoTask
    /\ stmtHolder' = NoTask
    /\ pc' = [pc EXCEPT ![p] = "done"]
    /\ UNCHANGED <<backend, ttl, tableExists, indexExists, table,
                   statement_counter, prepared_statements, arg, evictions, ops,
                   inserts, issued>>

\* The steps of the instance with callers P and the given inputs: the
\* connection lock, the storage calls and the tasks of the Embedded backend,
\* its statement calls, and the calls of the Driver-Managed backend.
LockStep(P) == \E t \in P \cup {Bg} : conn_lock(t)

DuckStoreStep(P, batches, froms) ==
    \/ \E t \in P \cup {Bg} : DuckDb_create_tables(t)
    \/ \E p \in P : DuckDb_init(p)
    \/ \E p \in P, m \in batches : DuckDb_insert_metrics(p, m)
    \/ \E p \in P : DuckDb_execute(p)
    \/ \E p \in P, f \in froms : DuckDb_query_metrics(p, f)
    \/ \E p \in P : DuckDb_query_rows(p)
    \/ \E i \in 1..Len(evictions) : execute_eviction_lock(i)
    \/ \E i \in 1..Len(evictions) : execute_eviction_run(i)

DuckSqlStep(P, texts, duckHandles) ==
    \/ \E p \in P, q \in texts : DuckDb_prepare_sql(p, q)
    \/ \E p \in P, h \in duckHandles : DuckDb_query_sql(p, h)

AdbcStoreStep(P, batches, froms) ==
    \/ \E p \in P : Adbc_init(p)
    \/ \E p \in P : Adbc_create_tables(p)
    \/ \E p \in P, m \in batches : Adbc_insert_metrics(p, m)
    \/ \E p \in P : Adbc_insert_execute(p)
    \/ \E p \in P, f \in froms : Adbc_query_metrics(p, f)
    \/ \E p \in P : Adbc_query_execute(p)

AdbcSqlStep(P, texts, adbcHandles) ==
    \/ \E p \in P, q \in texts : Adbc_prepare_sql(p, q)
    \/ \E p \in P : Adbc_prepare_push(p)
    \/ \E p \in P, h \in adbcHandles : Adbc_query_sql(p, h)
    \/ \E p \in P : Adbc_query_sql_find(p)
    \/ \E p \in P : Adbc_query_sql_execute(p)

AdbcStep(P, batches, froms, texts, adbcHandles) ==
    AdbcStoreStep(P, batches, froms) \/ AdbcSqlStep(P, texts, adbcHandles)

Step(P, batches, froms, texts, duckHandles, adbcHandles) ==
    \/ LockStep(P)
    \/ DuckStoreStep(P, batches, froms)
    \/ DuckSqlStep(P, texts, duckHandles)
    \/ AdbcStep(P, batches, froms, texts, adbcHandles)

\* One caller making any of the calls, one after the other, beside the
\* schema task and the eviction tasks.
Next == Step({"p1"}, Batches, QueryTimestamps, QueryTexts, DuckHandles, AdbcHandles)

Spec == Init /\ [][Next]_vars

\* Two concurrent callers, each with one input per call.
ConcNext ==
    Step(Procs, {<<RecA1, RecA2>>}, {2}, {SelectSql(2)}, {SelectSql(2)},
         {<<>>, to_le_bytes(0)})

ConcSpec == Init /\ [][ConcNext]_vars

\* The statement a task runs while it holds the connection: the native call
\* returns.
StatementStep(t) ==
    \/ DuckDb_create_tables(t) \/ DuckDb_execute(t) \/ DuckDb_query_rows(t)
    \/ Adbc_create_tables(t) \/ Adbc_insert_execute(t) \/ Adbc_query_execute(t)
    \/ Adbc_query_sql_execute(t)

\* A step of a detached eviction task, or of a task holding the connection.
TaskStep ==
    \/ \E i \in 1..Len(evictions) : execute_eviction_lock(i) \/ execute_eviction_run(i)
    \/ \E t \in Callers : StatementStep(t)

\* The runtime keeps running the detached eviction tasks, the tokio Mutex
\* hands the free connection to a waiting task, and every native call
\* returns: while one of these steps is possible, one is eventually taken.
Fairness == WF_vars(TaskStep)

\* The storage calls of one caller on the Embedded backend (the backend
\* that evicts), beside the schema task and the eviction tasks, under that
\* fairness.
FairNext == LockStep({"p1"}) \/ DuckStoreStep({"p1"}, {<<RecA1, RecA2>>}, {2})

FairSpec == Init /\ [][FairNext]_vars /\ Fairness

\* A step of a started operation or of a detached task: taking a lock it
\* waits for, or the statement it runs under its locks.
Progress ==
    \/ LockStep(Procs)
    \/ TaskStep
    \/ \E p \in Procs : Adbc_prepare_push(p) \/ Adbc_query_sql_find(p)

\* Two concurrent callers, one making the statement calls and one the
\* storage calls, the schema task and the eviction tasks; the runtime keeps
\* running the tasks, a free lock is handed to a task waiting
\* for it, and every native call returns.
LiveNext ==
    \/ LockStep(Procs)
    \/ DuckStoreStep({"p2"}, {<<RecA1, RecA2>>}, {2})
    \/ DuckSqlStep({"p1"}, {SelectSql(2)}, {SelectSql(2)})
    \/ AdbcStoreStep({"p2"}, {<<RecA1, RecA2>>}, {2})
    \/ AdbcSqlStep({"p1"}, {SelectSql(2)}, {to_le_bytes(0)})

LiveSpec == Init /\ [][LiveNext]_vars /\ WF_vars(Progress)

(***************************************************************************)
(* The properties.                                                         *)
(***************************************************************************)
Range(f) == {f[x] : x \in DOMAIN f}

\* The step in which p's query_metrics call executes its SELECT and returns.
QueryMetricsReturns(p) ==
    pc[p] = "conn_held" /\ arg[p].op = "query_metrics" /\ pc'[p] = "done"

\* The records handed to insert_metrics so far, as a set.
PassedRecords == DOMAIN inserts.passed

\* The store was initialised and empty when the inserts began, eviction is
\* disabled, insert_metrics has been called, the records are valid (no quote
\* character in a metric_id), and the query of p asks from a timestamp at or
\* before every inserted one.
RoundTripCase(p) ==
    /\ ttl = None
    /\ tableExists /\ inserts.allInit /\ inserts.calls >= 1
    /\ \A r \in PassedRecords : ~HasQuote(r.metric_id) /\ arg[p].from <= r.timestamp

\* C1, as stated: on both backends, for any sequence of valid records passed
\* to insert_metrics on an initialised, empty store with eviction disabled
\* (the empty sequence included), query_metrics(t) with t at or before the
\* least inserted timestamp returns Ok with exactly the inserted records, as
\* a multiset.
C1_RoundTripAsStated ==
    [][\A p \in Procs :
          (QueryMetricsReturns(p) /\ RoundTripCase(p))
          => (res'[p].status = "Ok" /\ SeqToBag(res'[p].rows) = inserts.passed)]_vars

\* C1, amended: on the Embedded backend the round trip holds as stated; on
\* the Driver-Managed backend it holds when every insert_metrics call returned
\* Ok (no two records share (metric_id, timestamp)), and when no record was
\* inserted query_metrics fails with NotFound instead of returning Ok with an
\* empty sequence.
C1_RoundTrip ==
    [][\A p \in Procs :
          (QueryMetricsReturns(p) /\ RoundTripCase(p))
          => /\ backend = "duckdb"
                => (res'[p].status = "Ok" /\ SeqToBag(res'[p].rows) = inserts.passed)
             /\ (backend = "adbc" /\ inserts.allOk)
                => /\ SeqToBag(res'[p].rows) = inserts.passed
                   /\ res'[p].status = (IF PassedRecords = {} THEN "NotFound" ELSE "Ok")]_vars

\* C1, witness: a query has returned the two records of a successful insert.
C1_Witness ==
    \E p \in Procs :
        /\ pc[p] = "done" /\ arg[p].op = "query_metrics" /\ arg[p].from = 1
        /\ ttl = None /\ inserts.allInit /\ inserts.allOk
        /\ res[p].status = "Ok" /\ Len(res[p].rows) = 2
        /\ SeqToBag(res[p].rows) = inserts.passed

\* The stored records a query from timestamp from is to return.
Matching(tbl, from) == SelectSeq(tbl, LAMBDA r : r.timestamp >= from)

\* C2: on both backends query_metrics(from_timestamp) returns every stored
\* record whose timestamp is at or after from_timestamp (the one at
\* from_timestamp included) and no record before it.
C2_QueryFilter ==
    [][\A p \in Procs :
          (QueryMetricsReturns(p) /\ tableExists)
          => /\ Matching(table, arg[p].from) # <<>> => res'[p].status = "Ok"
             /\ res'[p].status = "Ok"
                => SeqToBag(res'[p].rows) = SeqToBag(Matching(table, arg[p].from))]_vars

\* C2, witness: with records at 1 and 2 stored, a query from 2 has returned
\* only the record at 2.
C2_Witness ==
    \E p \in Procs :
        /\ pc[p] = "done" /\ arg[p].op = "query_metrics" /\ arg[p].from = 2
        /\ res[p].status = "Ok" /\ res[p].rows = <<RecA2>>
        /\ \E j \in 1..Len(table) : table[j] = RecA1

\* C3, as stated: on both backends every insert_metrics and query_metrics
\* call consults should_evict before its own statement, and a cutoff it
\* yields is dispatched as an eviction whatever becomes of the statement.
C3_EvictionCheckedFirst ==
    \A p \in Procs :
        (arg[p].op \in {"insert_metrics", "query_metrics"}
         /\ pc[p] \in {"conn_wait", "conn_held", "done"})
        => /\ arg[p].checked
           /\ arg[p].cutoff # None
              => \E i \in 1..Len(evictions) :
                    evictions[i].query = eviction_query(TheOne(arg[p].cutoff))

\* The cutoff of the i-th eviction task, read from its statement.
CutoffOf(i) == TheOne(ParseI64(evictions[i].query.cutoff))

NoRowBefore(cutoff) == \A j \in 1..Len(table) : ~(table[j].timestamp < cutoff)

\* The i-th eviction task has been dispatched and has not run yet.
EvictionPending(i) ==
    Len(evictions) >= i /\ evictions[i].pc \in {"conn_wait", "conn_held"}

\* C4: once a call has dispatched an eviction with cutoff now - TTL, the
\* delete runs, and unless it fails it leaves a state in which no record
\* with a timestamp before the cutoff is stored (so that none is in the
\* result of a query_metrics).
C4_EvictedEventually ==
    \A i \in 1..MaxEvictions :
        EvictionPending(i)
        ~> (/\ Len(evictions) >= i
            /\ \/ evictions[i].pc = "failed"
               \/ evictions[i].pc = "ok" /\ NoRowBefore(CutoffOf(i)))

\* C4, witness: a record older than the cutoff was inserted, the eviction has
\* run, and only newer records are stored.
C4_Witness ==
    /\ Len(evictions) >= 1 /\ evictions[1].pc = "ok"
    /\ \E r \in PassedRecords : r.timestamp < CutoffOf(1)
    /\ table # <<>> /\ NoRowBefore(CutoffOf(1))

\* C5: when the table exists and no stored record is at or after
\* from_timestamp, query_metrics fails with NotFound on the Driver-Managed
\* backend and returns Ok with an empty sequence on the Embedded backend.
C5_EmptyResultPolicy ==
    [][\A p \in Procs :
          (QueryMetricsReturns(p) /\ tableExists /\ Matching(table, arg[p].from) = <<>>)
          => res'[p] = (IF backend = "adbc" THEN Err("NotFound") ELSE Ok(<<>>))]_vars

\* C5, witness: the Driver-Managed backend has answered NotFound to a query
\* from a timestamp after every stored record.
C5_Witness ==
    \E p \in Procs :
        /\ backend = "adbc" /\ pc[p] = "done" /\ arg[p].op = "query_metrics"
        /\ table # <<>> /\ Matching(table, arg[p].from) = <<>>
        /\ res[p].status = "NotFound"

\* C6: the handles one Driver-Managed instance has returned from prepare_sql
\* are pairwise distinct, whatever the interleaving of the callers and
\* whether or not the texts are equal.
C6_DistinctHandles ==
    backend = "adbc"
    => \A i, j \in 1..Len(issued) : i # j => issued[i] # issued[j]

\* C6, witness: both callers have a handle for the same text.
C6_Witness ==
    /\ backend = "adbc" /\ Len(issued) >= 2
    /\ \A p \in Procs : pc[p] = "done" /\ arg[p].op = "prepare_sql"
                        /\ arg[p].sql = SelectSql(2) /\ res[p].handle \in Range(issued)

\* C7: on the Driver-Managed backend a query_sql whose handle is not 8 bytes
\* long, or is 8 bytes that prepare_sql has not returned, never gets to the
\* connection and returns InvalidArgument.
C7_InvalidHandle ==
    \A p \in Procs :
        (backend = "adbc" /\ arg[p].op = "query_sql")
        => /\ Len(arg[p].handle) # 8
              => (pc[p] = "done" /\ res[p].status = "InvalidArgument")
           /\ pc[p] \in {"conn_wait", "conn_held"} => arg[p].handle \in Range(issued)
           /\ (pc[p] = "done" /\ arg[p].handle \notin Range(issued))
              => res[p].status = "InvalidArgument"

\* C7, witness: with a handle issued, a query_sql with 8 other bytes has
\* returned InvalidArgument.
C7_Witness ==
    \E p \in Procs :
        /\ backend = "adbc" /\ pc[p] = "done" /\ arg[p].op = "query_sql"
        /\ arg[p].handle = to_le_bytes(256) /\ to_le_bytes(0) \in Range(issued)
        /\ res[p].status = "InvalidArgument"

\* The step in which p's query_sql call executes its statement and returns.
QuerySqlReturns(p) ==
    pc[p] = "conn_held" /\ arg[p].op = "query_sql" /\ pc'[p] = "done"

\* The timestamp filter a handle of prepare_sql stands for, Option<i64>: the
\* filter of the SELECT text it was prepared from, and on the Embedded
\* backend, whose handle is the text, also the timestamp the text spells.
FilterOfText(text) ==
    IF Len(text) >= 2 /\ SubSeq(text, 1, 1) = SelectKeyword THEN ParseI64(Tail(text))
    ELSE IF backend = "duckdb" THEN ParseI64(text)
    ELSE None

EquivalentFilter(p) ==
    IF arg[p].handle \notin Range(issued) THEN None
    ELSE FilterOfText(IF backend = "adbc" THEN arg[p].sql ELSE arg[p].handle)

\* What query_metrics(from_timestamp) returns in the present state.
QueryMetricsResult(from_timestamp) ==
    IF backend = "adbc" THEN AdbcQueryMetricsResult(tableExists, table, from_timestamp)
    ELSE DuckQueryMetricsResult(tableExists, table, from_timestamp)

\* C8, as stated: query_sql on a handle of prepare_sql has the same outcome
\* (the same rows) as query_metrics with the equivalent timestamp filter in
\* the same store state, on both backends, also when no row matches.
C8_SameAsQueryMetricsAsStated ==
    [][\A p \in Procs :
          (QuerySqlReturns(p) /\ EquivalentFilter(p) # None)
          => res'[p] = QueryMetricsResult(TheOne(EquivalentFilter(p)))]_vars

\* C9, as stated: on the Embedded backend a query_sql whose handle is not
\* valid UTF-8, or not the text of a timestamp, returns InvalidArgument
\* without running a query.
C9_EmbeddedRejectsMalformedHandle ==
    \A p \in Procs :
        (backend = "duckdb" /\ arg[p].op = "query_sql"
         /\ (FromUtf8(arg[p].handle) = None \/ ParseI64(arg[p].handle) = None))
        => (pc[p] = "done" /\ res[p].status = "InvalidArgument")

\* The tasks executing a statement on the connection.
ConnUsers ==
    {t \in Callers : pc[t] = "conn_held"}
    \cup {EvictNames[i] : i \in {j \in 1..Len(evictions) : evictions[j].pc = "conn_held"}}

\* C10: at most one task (a call, the schema task or an eviction) executes a
\* statement on the connection, and it is the holder of the lock.
C10_MutualExclusion ==
    /\ Cardinality(ConnUsers) <= 1
    /\ \A t \in ConnUsers : connHolder = t

\* C10, witness: an eviction holds the connection while both callers wait
\* for it.
C10_Witness ==
    /\ Len(evictions) >= 1 /\ evictions[1].pc = "conn_held"
    /\ \A p \in Procs : pc[p] = "conn_wait"

\* The step in which p's insert_metrics call executes its statement and
\* returns.
InsertMetricsReturns(p) ==
    pc[p] = "conn_held" /\ arg[p].op = "insert_metrics" /\ pc'[p] = "done"

\* The i-th eviction task's delete statement returns in this step.
EvictionEnds(i) ==
    i <= Len(evictions) /\ evictions[i].pc = "conn_held" /\ evictions'[i].pc \in {"ok", "failed"}

\* C11: the end of an eviction delete, failed or not, changes the result and
\* the position of no call, a failed delete leaves the store as it was, and
\* what an insert_metrics or query_metrics call of the Embedded backend
\* returns is the outcome of its own statement on the store, whatever
\* became of the evictions.
C11_EvictionFailureNotSurfaced ==
    [][/\ \A i \in 1..MaxEvictions :
             EvictionEnds(i)
             => /\ res' = res /\ pc' = pc /\ arg' = arg
                /\ evictions'[i].pc = "failed" => (table' = table /\ tableExists' = tableExists)
       /\ \A p \in Procs :
             /\ (backend = "duckdb" /\ InsertMetricsReturns(p))
                => res'[p] = (IF EngineInsertText(tableExists, table,
                                                  DuckInsertQuery(arg[p].metrics)).ok
                              THEN Ok(<<>>) ELSE Err("Internal"))
             /\ (backend = "duckdb" /\ QueryMetricsReturns(p))
                => res'[p] = DuckQueryMetricsResult(tableExists, table, arg[p].from)]_vars

\* C11, witness: the delete an insert_metrics call dispatched has failed and
\* the call has returned Ok.
C11_Witness ==
    \E p \in Procs :
        /\ pc[p] = "done" /\ arg[p].op = "insert_metrics" /\ arg[p].task # 0
        /\ evictions[arg[p].task].pc = "failed"
        /\ res[p].status = "Ok"

\* p's insert_metrics or query_metrics call has dispatched an eviction and
\* waits for the connection.
TriggeredAndWaiting(p) ==
    /\ pc[p] = "conn_wait" /\ arg[p].op \in {"insert_metrics", "query_metrics"}
    /\ arg[p].task # 0

\* C12, as stated: a call that dispatched an eviction never waits for the
\* connection while the delete of that eviction is running.
C12_NeverWaitsForDelete ==
    \A p \in Procs :
        TriggeredAndWaiting(p) => evictions[arg[p].task].pc # "conn_held"

\* C12, amended: a call that dispatched an eviction does not wait for the
\* eviction task: whenever the connection lock is free it can take the lock
\* for its own statement, whether the delete is still pending or has ended,
\* and while the delete is pending but not running the task does not hold
\* the lock.
C12_WaitsOnlyForLockHolder ==
    \A p \in Procs :
        TriggeredAndWaiting(p)
        => /\ connHolder = NoTask => ENABLED conn_lock(p)
           /\ evictions[arg[p].task].pc = "conn_wait"
              => connHolder # EvictNames[arg[p].task]

\* C12, witness: a call has returned while the delete it dispatched has not
\* started.
C12_Witness ==
    \E p \in Procs :
        /\ pc[p] = "done" /\ arg[p].op \in {"insert_metrics", "query_metrics"}
        /\ arg[p].task # 0 /\ evictions[arg[p].task].pc = "conn_wait"

\* Task t, in init or in the schema task, executes a statement of
\* create_tables in this step.
CreateTablesStep(t) ==
    /\ pc[t] = "conn_held" /\ arg[t].op \in {"init", "create_tables"}
    /\ pc'[t] # "conn_held"

\* C13: on both backends every statement of create_tables, run by init or by
\* the schema task in any interleaving with the other calls, leaves the
\* table existing and the stored records unchanged, and every init call
\* returns Ok.
C13_InitIdempotent ==
    [][\A t \in Callers :
          CreateTablesStep(t)
          => /\ tableExists' /\ table' = table
             /\ (tableExists => indexExists' = (indexExists \/ arg[t].stage = "index"))
             /\ (pc'[t] = "done" /\ arg[t].op = "init") => res'[t] = Ok(<<>>)]_vars

\* C13, witness: an init call made on a store that holds records has
\* returned Ok.
C13_Witness ==
    \E p \in Procs :
        /\ pc[p] = "done" /\ arg[p].op = "init" /\ res[p] = Ok(<<>>)
        /\ tableExists /\ table # <<>>

\* The TTLs of the instances built with no TTL or a TTL of 0: new with None,
\* new_with_options with the option missing, unreadable or "0", and
\* new_in_memory.
DisabledTtls ==
    {None} \cup {new_with_options_ttl(o) : o \in TtlOptions \ {Some(FormatInt(1))}}
           \cup {new_in_memory_ttl}

\* C14: an Embedded instance built with no TTL or a TTL of 0, by any
\* construction path, never dispatches an eviction: no call gets a cutoff and
\* no eviction task exists.
C14_NoTtlNoEviction ==
    (backend = "duckdb" /\ ttl \in DisabledTtls)
    => /\ evictions = <<>>
       /\ \A p \in Procs : arg[p].cutoff = None /\ arg[p].task = 0

\* C14, witness: on an instance of new_in_memory (TTL Some(0)) an
\* insert_metrics and a query_metrics call have made their eviction check and
\* returned, and no eviction task exists.
C14_Witness ==
    /\ backend = "duckdb" /\ ttl = new_in_memory_ttl /\ inserts.calls >= 1
    /\ \E p \in Procs : pc[p] = "done" /\ arg[p].op = "query_metrics" /\ arg[p].checked
    /\ evictions = <<>>

\* No two rows of tbl have the same (metric_id, timestamp).
KeysDistinct(tbl) ==
    \A i, j \in 1..Len(tbl) : PrimaryKey(tbl[i]) = PrimaryKey(tbl[j]) => i = j

\* C15: an insert_metrics call, with or without records of equal
\* (metric_id, timestamp), returns Ok or an Internal error and releases the
\* connection lock; on the Embedded backend an insert of valid records into
\* the existing table returns Ok and appends every record, duplicates
\* included; on the Driver-Managed backend the table never holds two rows
\* with one key.
C15_DuplicateKeys ==
    [][/\ \A p \in Procs :
             InsertMetricsReturns(p)
             => /\ res'[p] \in {Ok(<<>>), Err("Internal")}
                /\ connHolder' = NoTask
                /\ (/\ backend = "duckdb" /\ tableExists /\ arg[p].metrics # <<>>
                    /\ \A k \in 1..Len(arg[p].metrics) : ~HasQuote(arg[p].metrics[k].metric_id))
                   => (res'[p] = Ok(<<>>) /\ table' = table \o arg[p].metrics)
       /\ backend = "adbc" => KeysDistinct(table')]_vars

\* C15, witness: the Embedded backend holds two rows with one key and a
\* later query_metrics has returned both.
C15_Witness ==
    \E p \in Procs :
        /\ backend = "duckdb" /\ ~KeysDistinct(table)
        /\ pc[p] = "done" /\ arg[p].op = "query_metrics"
        /\ res[p] = Ok(<<RecA2, RecA2>>)

\* The step in which p's prepare_sql call pushes its statement and returns.
PrepareSqlReturns(p) ==
    pc[p] = "stmt_wait" /\ arg[p].op = "prepare_sql" /\ pc'[p] = "done"

\* The step in which p's query_sql call looks its handle up.
QuerySqlResolves(p) ==
    pc[p] = "stmt_wait" /\ arg[p].op = "query_sql" /\ pc'[p] # "stmt_wait"

\* The text that was prepared when handle h was returned: handles and
\* statements are recorded in the same order.
TextOf(h) ==
    prepared_statements[CHOOSE i \in 1..Len(issued) : issued[i] = h][2]

\* C16: on the Driver-Managed backend the statement cache only grows, the
\* handle prepare_sql(q) returns is stored with the text q, and every
\* query_sql on a returned handle, after whatever calls, finds the handle
\* and resolves it to the text it was prepared with.
C16_HandleLifetime ==
    [][backend = "adbc"
       => /\ Len(prepared_statements') >= Len(prepared_statements)
          /\ \A i \in 1..Len(prepared_statements) :
                prepared_statements'[i] = prepared_statements[i]
          /\ Len(issued') = Len(prepared_statements')
          /\ \A p \in Procs :
                /\ PrepareSqlReturns(p)
                   => /\ res'[p].status = "Ok"
                      /\ prepared_statements' =
                            Append(prepared_statements,
                                   <<from_le_bytes(res'[p].handle), arg[p].sql>>)
                /\ (QuerySqlResolves(p) /\ arg[p].handle \in Range(issued))
                   => /\ pc'[p] = "conn_wait"
                      /\ arg'[p].sql = TextOf(arg[p].handle)]_vars

\* C16, witness: after a second prepare_sql with another text, a query_sql
\* on the first handle has resolved it to the first text.
C16_Witness ==
    \E p \in Procs :
        /\ backend = "adbc" /\ arg[p].op = "query_sql"
        /\ pc[p] \in {"conn_wait", "conn_held", "done"}
        /\ arg[p].handle = to_le_bytes(0)
        /\ Len(prepared_statements) = 2
        /\ prepared_statements[1][2] # prepared_statements[2][2]
        /\ arg[p].sql = prepared_statements[1][2]

\* The counter values drawn by prepare_sql so far: those pushed and those
\* of the calls waiting for the statement cache.
DrawnHandles ==
    {prepared_statements[i][1] : i \in 1..Len(prepared_statements)}
    \cup {arg[p].num : p \in {q \in Procs : pc[q] = "stmt_wait" /\ arg[q].op = "prepare_sql"}}

\* C17: on the Driver-Managed backend the counter values drawn are 0, 1, ..
\* up to the counter, each once; a returned handle is the 8 bytes of its
\* value, least significant byte first; and query_sql decodes a handle of 8
\* bytes to the value those bytes spell, so that a returned handle decodes to
\* the value stored with its text.
C17_CounterHandles ==
    backend = "adbc"
    => /\ DrawnHandles = 0..(statement_counter - 1)
       /\ Len(issued) = Len(prepared_statements)
       /\ \A i \in 1..Len(issued) :
             /\ Len(issued[i]) = 8
             /\ issued[i][1] = prepared_statements[i][1] % 256
             /\ issued[i][2] = (prepared_statements[i][1] \div 256) % 256
             /\ from_le_bytes(issued[i]) = prepared_statements[i][1]
       /\ \A p \in Procs :
             (arg[p].op = "query_sql" /\ pc[p] \in {"stmt_wait", "conn_wait", "conn_held"})
             => /\ Len(arg[p].handle) = 8
                /\ arg[p].handle = to_le_bytes(arg[p].num)
                /\ arg[p].handle[2] = 1 => arg[p].num >= 256
                /\ \A i \in 1..Len(issued) :
                      issued[i] = arg[p].handle => prepared_statements[i][1] = arg[p].num

\* C17, witness: the second prepare_sql has returned the handle of 1, and a
\* query_sql on it has decoded it to 1 and found its statement.
C17_Witness ==
    \E p \in Procs :
        /\ backend = "adbc" /\ arg[p].op = "query_sql"
        /\ pc[p] \in {"conn_wait", "conn_held", "done"}
        /\ arg[p].handle = <<1, 0, 0, 0, 0, 0, 0, 0>> /\ arg[p].num = 1
        /\ Len(issued) = 2 /\ issued[2] = arg[p].handle

\* The rows of tbl at or after cutoff, in their order.
RowsFrom(tbl, cutoff) == SelectSeq(tbl, LAMBDA r : r.timestamp >= cutoff)

\* C18: the delete of an eviction with cutoff c leaves exactly the rows with
\* timestamp >= c, each unchanged and in place, when it succeeds and the
\* whole table when it fails, whether it runs before or after the statement
\* of the call that dispatched it; and an insert_metrics statement removes
\* no row, so that rows before c it adds after the delete stay stored.
C18_EvictionFrame ==
    [][/\ \A i \in 1..MaxEvictions :
             EvictionEnds(i)
             => table' = (IF evictions'[i].pc = "ok"
                          THEN RowsFrom(table, CutoffOf(i)) ELSE table)
       /\ \A p \in Procs :
             (backend = "duckdb" /\ InsertMetricsReturns(p))
             => /\ Len(table') >= Len(table)
                /\ \A j \in 1..Len(table) : table'[j] = table[j]]_vars

\* C18, witness: the delete has run, a row at its cutoff is stored, and so is
\* a row before the cutoff that the insert added afterwards.
C18_Witness ==
    /\ Len(evictions) >= 1 /\ evictions[1].pc = "ok"
    /\ \E j \in 1..Len(table) : table[j].timestamp = CutoffOf(1)
    /\ \E j \in 1..Len(table) : table[j].timestamp < CutoffOf(1)

\* C19, as stated: on the Embedded backend no insert_metrics or
\* query_metrics call holds the connection for its statement before the
\* CREATE TABLE statement has executed.
C19_StatementAfterCreateTable ==
    \A p \in Procs :
        (/\ backend = "duckdb" /\ pc[p] = "conn_held"
         /\ arg[p].op \in {"insert_metrics", "query_metrics"})
        => tableExists

\* Task t has started an operation that has not returned.
Started(t) == pc[t] \in {"conn_wait", "conn_held", "stmt_wait"}

\* The locks are taken in one order: a task waiting for the statement cache
\* holds no lock, the holder of the statement cache is a query_sql call at
\* or under the connection lock, and the holder of the connection is a task
\* running its statement.
LockOrder ==
    /\ \A p \in Procs :
          /\ pc[p] = "stmt_wait" => (connHolder # p /\ stmtHolder # p)
          /\ stmtHolder = p
             => (arg[p].op = "query_sql" /\ pc[p] \in {"conn_wait", "conn_held"})
          /\ pc[p] \in {"idle", "done"} => (connHolder # p /\ stmtHolder # p)
    /\ \A t \in Callers : connHolder = t => pc[t] = "conn_held"
    /\ \A i \in 1..Len(evictions) :
          connHolder = EvictNames[i] <=> evictions[i].pc = "conn_held"

\* C20: in every interleaving of the calls of two callers, the schema task
\* and the eviction tasks, the locks are taken in one order and released on
\* every return, and every started operation and every dispatched eviction
\* eventually returns.
C20_NoDeadlock ==
    /\ []LockOrder
    /\ \A t \in Callers : Started(t) ~> (pc[t] = "done")
    /\ \A i \in 1..MaxEvictions :
          EvictionPending(i) ~> (Len(evictions) >= i /\ evictions[i].pc \in {"ok", "failed"})

\* C20, witness: a query_sql call holds the statement cache and waits for
\* the connection, which the other caller holds, after a call has returned.
C20_Witness ==
    \E p, q \in Procs :
        /\ p # q /\ stmtHolder = p /\ pc[p] = "conn_wait"
        /\ connHolder = q /\ pc[q] = "conn_held"

\* C21: an insert_metrics call given no records, on a store whose table
\* exists, returns Ok and leaves the stored records as they were, on both
\* backends.
C21_EmptyInsertOk ==
    [][\A p \in Procs :
          (InsertMetricsReturns(p) /\ arg[p].metrics = <<>> /\ tableExists)
              => (res'[p] = Ok(<<>>) /\ table' = table)]_vars

====
